---- MODULE Spec2Model ----
(***************************************************************************)
(* Model of collect_stocks.py (chongg039/stock-daily): the daily quote and *)
(* news collector.  One run of main fetches US quotes, CN quotes and news, *)
(* writes data/<date>.json, reports/<date>.md and patches README.md.       *)
(*                                                                         *)
(* Text.  A Python str is modelled as a sequence of tokens.  A token is    *)
(* either one of the characters the code looks at (",", the double quote,  *)
(* newline, "#", digits, "-", "+", ".") or an opaque chunk of other text.  *)
(* A phrase the code searches for is always a token of its own, so the     *)
(* substring tests and replacements of the code are tests and replacements *)
(* of token subsequences.  Non-ASCII literals of the source are written in *)
(* ASCII:                                                                  *)
(*   "获取失败"  -> "FetchFailed"      "最新行情" -> "LatestQuotes"        *)
(*   "道琼斯" -> "DowJones"  "标普 500" -> "SP500"  "纳斯达克" -> "Nasdaq" *)
(*   "上证指数" -> "Shanghai" "深证成指" -> "Shenzhen" "创业板指" -> "ChiNext" *)
(***************************************************************************)
EXTENDS Integers, Sequences, FiniteSets, TLC

VARIABLES
    pc,          \* position of main: "idle", "us", "cn", "news", "save", "report", "readme", "stopped"
    date,        \* main: date (the dateStamp of the current run)
    clock,       \* datetime.now(): the number of the current run
    us_data,     \* main: us_data, display name -> record
    cn_data,     \* main: cn_data
    news_data,   \* main: news_data, category -> list of items
    dataDir,     \* DATA_DIR: set of files [name, content]
    reportsDir,  \* REPORTS_DIR: set of files [name, content]
    readme,      \* README.md: [exists, content]
    hist,        \* history of the runs (what each run saw and wrote); not read by the program
    call         \* the last call of a function checked on its own: [fn, args, ret]

vars == <<pc, date, clock, us_data, cn_data, news_data, dataDir, reportsDir, readme, hist, call>>

\* ------------------------------------------------------------------ text

NL == "\n"
QUOTE == "\""
COMMA == ","

Digits == {"0", "1", "2", "3", "4", "5", "6", "7", "8", "9"}
Whitespace == {NL, " "}

DigitVal(c) ==
    CASE c = "0" -> 0 [] c = "1" -> 1 [] c = "2" -> 2 [] c = "3" -> 3 [] c = "4" -> 4
      [] c = "5" -> 5 [] c = "6" -> 6 [] c = "7" -> 7 [] c = "8" -> 8 [] c = "9" -> 9

\* tok in s, for a one-token needle
Contains(s, tok) == \E i \in 1..Len(s) : s[i] = tok

\* needle in s
StartsAt(s, needle, i) ==
    /\ i + Len(needle) - 1 <= Len(s)
    /\ \A k \in 1..Len(needle) : s[i + k - 1] = needle[k]

ContainsSeq(s, needle) == \E i \in 1..(Len(s) + 1) : StartsAt(s, needle, i)

\* the first position from i on at which needle occurs in s, or 0
NextAt(s, needle, i) ==
    IF \E j \in i..Len(s) : StartsAt(s, needle, j)
    THEN CHOOSE j \in i..Len(s) :
             StartsAt(s, needle, j) /\ \A k \in i..(j - 1) : ~StartsAt(s, needle, k)
    ELSE 0

\* s.replace(needle, repl), needle not empty: every non-overlapping
\* occurrence, left to right
RECURSIVE ReplaceFrom(_, _, _, _)
ReplaceFrom(s, needle, repl, i) ==
    LET j == NextAt(s, needle, i)
    IN  IF j = 0 THEN SubSeq(s, i, Len(s))
        ELSE SubSeq(s, i, j - 1) \o repl \o ReplaceFrom(s, needle, repl, j + Len(needle))

Replace(s, needle, repl) == ReplaceFrom(s, needle, repl, 1)

\* s.split(sep): the list of the pieces between the separators
RECURSIVE SplitFrom(_, _, _)
SplitFrom(s, sep, i) ==
    LET j == NextAt(s, <<sep>>, i)
    IN  IF j = 0 THEN <<SubSeq(s, i, Len(s))>>
        ELSE <<SubSeq(s, i, j - 1)>> \o SplitFrom(s, sep, j + 1)

Split(s, sep) == SplitFrom(s, sep, 1)

\* s.strip(): leading and trailing whitespace removed
RECURSIVE LStrip(_)
LStrip(s) == IF s # <<>> /\ Head(s) \in Whitespace THEN LStrip(Tail(s)) ELSE s

RECURSIVE RStrip(_)
RStrip(s) ==
    IF s # <<>> /\ s[Len(s)] \in Whitespace THEN RStrip(SubSeq(s, 1, Len(s) - 1)) ELSE s

Strip(s) == RStrip(LStrip(s))

\* s[:n]
Prefix(s, n) == SubSeq(s, 1, IF Len(s) < n THEN Len(s) ELSE n)

\* ------------------------------------------------------------ calc_change

\* float(s) for the decimal literals [sign] digits [. digits]: [ok, num, den]
\* with value num/den; any other text raises ValueError (ok = FALSE).
NoFloat == [ok |-> FALSE, num |-> 0, den |-> 1]

RECURSIVE ParseDigits(_, _, _, _, _)
ParseDigits(s, i, num, den, seenDot) ==
    IF i > Len(s) THEN [ok |-> TRUE, num |-> num, den |-> den]
    ELSE IF s[i] \in Digits
         THEN ParseDigits(s, i + 1, num * 10 + DigitVal(s[i]),
                          IF seenDot THEN den * 10 ELSE den, seenDot)
         ELSE IF s[i] = "." /\ ~seenDot
              THEN ParseDigits(s, i + 1, num, den, TRUE)
              ELSE NoFloat

float(s) ==
    LET neg == s # <<>> /\ Head(s) = "-"
        body == IF s # <<>> /\ Head(s) \in {"-", "+"} THEN Tail(s) ELSE s
        p == ParseDigits(body, 1, 0, 1, FALSE)
    IN  IF ~(\E i \in 1..Len(body) : body[i] \in Digits) THEN NoFloat
        ELSE IF ~p.ok THEN NoFloat
        ELSE [ok |-> TRUE, num |-> IF neg THEN 0 - p.num ELSE p.num, den |-> p.den]

Abs(n) == IF n < 0 THEN 0 - n ELSE n

\* n/d (d > 0, n >= 0) rounded to the nearest integer, ties to even
RoundDiv(n, d) ==
    LET q == n \div d
        r == n % d
    IN  IF 2 * r > d \/ (2 * r = d /\ q % 2 = 1) THEN q + 1 ELSE q

\* f"{x:+.2f}%" for x = n/d: forced sign, two decimals; the sign is the sign
\* bit of the float, so 0/d with d < 0 is -0.0 and prints "-0.00"
FormatSigned2(n, d) ==
    LET neg == (n < 0) # (d < 0)
        h == RoundDiv(Abs(n) * 100, Abs(d))
        frac == h % 100
    IN  <<(IF neg THEN "-" ELSE "+"), ToString(h \div 100), ".",
          ToString(frac \div 10), ToString(frac % 10), "%">>

DASH == <<"-">>
ZERO_PCT == <<"0", "%">>

\* calc_change dividing by the current value
calc_change_ByCurrent(current, prev) ==
    LET c == float(current)
        p == float(prev)
    IN  IF ~c.ok \/ ~p.ok THEN DASH
        ELSE IF p.num = 0 \/ c.num = 0 THEN ZERO_PCT
        ELSE FormatSigned2(100 * (c.num * p.den - p.num * c.den), c.num * p.den)

calc_change(current, prev) ==
    LET c == float(current)
        p == float(prev)
    IN  IF ~c.ok \/ ~p.ok THEN DASH
        ELSE IF p.num = 0 THEN ZERO_PCT
        ELSE \* ((curr - prev) / prev) * 100 = 100 (c.num p.den - p.num c.den) / (p.num c.den)
             FormatSigned2(100 * (c.num * p.den - p.num * c.den), p.num * c.den)

\* -------------------------------------------------------- get_tavily_news

SNIPPET_LEN == 200
ELLIPSIS == <<"...">>

\* Snippet cutting at 200 characters and more, not at more than 200
Snippet_AtLimit(content) ==
    IF Len(content) >= SNIPPET_LEN THEN Prefix(content, SNIPPET_LEN) \o ELLIPSIS ELSE content

\* item.get("content", "")[:200] + "..." if len(item.get("content", "")) > 200 else item.get("content", "")
Snippet(content) ==
    IF Len(content) > SNIPPET_LEN THEN Prefix(content, SNIPPET_LEN) \o ELLIPSIS ELSE content

FETCH_FAILED == "FetchFailed"

\* [{"title": f"获取失败：{str(e)}", "url": "", "content": ""}]
Sentinel(e) == << [title |-> <<FETCH_FAILED, ":">> \o e, url |-> <<>>, content |-> <<>>] >>

\* str(e) of the TypeError len() raises for a content that is no text
TypeErrorText == <<"object of type 'NoneType' has no len()">>

\* get_tavily_news without the [:max_results] slice
get_tavily_news_NoSlice(up, max_results) ==
    IF up.raised THEN Sentinel(up.exc)
    ELSE IF \E i \in 1..Len(up.results) : ~up.results[i].content_is_str
         THEN Sentinel(TypeErrorText)
         ELSE [i \in 1..Len(up.results) |->
                  [title |-> up.results[i].title, url |-> up.results[i].url,
                   content |-> Snippet(up.results[i].content)]]

\* The outcome of the one request: up.raised with the text of the exception
\* (network, auth, json.loads), or the decoded "results" list.  An item is
\* [title, url, content, content_is_str].
get_tavily_news(up, max_results) ==
    IF up.raised THEN Sentinel(up.exc)
    ELSE LET items == Prefix(up.results, max_results)
         IN  IF \E i \in 1..Len(items) : ~items[i].content_is_str
             THEN Sentinel(TypeErrorText)
             ELSE [i \in 1..Len(items) |->
                      [title |-> items[i].title, url |-> items[i].url,
                       content |-> Snippet(items[i].content)]]

\* -------------------------------------------------------------- run_shell

\* The outcome of subprocess.run: proc.raised with str(e), or the stdout text.
\* run_shell returns result.stdout.strip(), or f"Error: {e}".
run_shell(proc) == IF proc.raised THEN <<"Error: ">> \o proc.exc ELSE Strip(proc.stdout)

\* --------------------------------------------------------- get_us_stocks

\* indices, then tech_stocks, in the order of the two loops: symbol -> name
US_INDICES ==
    << [symbol |-> <<"^DJI">>, name |-> "DowJones"],
       [symbol |-> <<"^SPX">>, name |-> "SP500"],
       [symbol |-> <<"^IXIC">>, name |-> "Nasdaq"] >>

TECH_STOCKS ==
    << [symbol |-> <<"AAPL", ".US">>, name |-> "Apple"],
       [symbol |-> <<"MSFT", ".US">>, name |-> "Microsoft"],
       [symbol |-> <<"GOOGL", ".US">>, name |-> "Google"],
       [symbol |-> <<"AMZN", ".US">>, name |-> "Amazon"],
       [symbol |-> <<"NVDA", ".US">>, name |-> "Nvidia"],
       [symbol |-> <<"META", ".US">>, name |-> "Meta"],
       [symbol |-> <<"TSLA", ".US">>, name |-> "Tesla"] >>

Range(f) == {f[i] : i \in DOMAIN f}

USNames == {e.name : e \in Range(US_INDICES) \cup Range(TECH_STOCKS)}

NO_DATA == "N/D"

\* f'curl -sL "https://stooq.com/q/l/?s={symbol}&f=sd2t2ohlcv&h=x&t=x" 2>/dev/null | tail -1'
USCmd(symbol) ==
    <<"curl -sL ", QUOTE, "https://stooq.com/q/l/?s=">> \o symbol
        \o <<"&f=sd2t2ohlcv&h=x&t=x", QUOTE, " 2>/dev/null | tail -1">>

\* USHasData without the test for the no-data token
USHasData_NoSentinelTest(data) == data # <<>> /\ Strip(data) # <<>>

\* if data and "N/D" not in data and data.strip():
USHasData(data) == data # <<>> /\ ~Contains(data, NO_DATA) /\ Strip(data) # <<>>

US_MIN_PARTS == 7

\* if len(parts) >= 7:
USEnoughParts(parts) == Len(parts) >= US_MIN_PARTS

\* the dict literal; Python's parts[k] is parts[k + 1] here
USRecord(symbol, parts) ==
    [symbol |-> symbol, date |-> parts[2], close |-> parts[7], open |-> parts[4],
     high |-> parts[5], low |-> parts[6],
     volume |-> IF Len(parts) > 7 THEN parts[8] ELSE DASH]

\* one pass of a loop body: [has, rec]
USFetch(symbol, proc) ==
    LET data == run_shell(proc)
        parts == Split(data, COMMA)
    IN  IF USHasData(data) /\ USEnoughParts(parts)
        THEN [has |-> TRUE, rec |-> USRecord(symbol, parts)]
        ELSE [has |-> FALSE, rec |-> <<>>]

NameEntry(table, name) == CHOOSE e \in Range(table) : e.name = name

\* resp: display name -> outcome of that symbol's request
get_us_stocks(resp) ==
    LET idx(n) == USFetch(NameEntry(US_INDICES, n).symbol, resp[n])
        tech(n) == USFetch(Replace(NameEntry(TECH_STOCKS, n).symbol, <<".US">>, <<>>), resp[n])
        isIdx(n) == \E e \in Range(US_INDICES) : e.name = n
        got(n) == IF isIdx(n) THEN idx(n) ELSE tech(n)
    IN  [n \in {m \in USNames : got(m).has} |-> got(n).rec]

\* --------------------------------------------------------- get_cn_stocks

CN_INDICES ==
    << [symbol |-> "sh000001", name |-> "Shanghai"],
       [symbol |-> "sz399001", name |-> "Shenzhen"],
       [symbol |-> "cyb", name |-> "ChiNext"] >>

CNNames == {e.name : e \in Range(CN_INDICES)}

\* f'curl -sL "http://hq.sinajs.cn/list={code}" 2>/dev/null'
CNCmd(code) == <<"curl -sL ", QUOTE, "http://hq.sinajs.cn/list=", code, QUOTE, " 2>/dev/null">>

\* if data and code in data:
CNHasData(data, code) == data # <<>> /\ Contains(data, code)

\* content = data.split('"')[1] if '"' in data else ""
CNContent(data) == IF Contains(data, QUOTE) THEN Split(data, QUOTE)[2] ELSE <<>>

CN_MIN_PARTS == 5

\* if len(parts) >= 5:
CNEnoughParts(parts) == Len(parts) >= CN_MIN_PARTS

OrDash(v) == IF v # <<>> THEN v ELSE DASH

\* the dict literal, evaluated in the order written: parts[5] raises
\* IndexError on a list of five, and the except clause stores the error
CNRecord(code, parts) ==
    IF Len(parts) < 6
    THEN [error |-> <<"list index out of range">>]
    ELSE [symbol |-> <<code>>, close |-> OrDash(parts[4]), open |-> OrDash(parts[2]),
          high |-> OrDash(parts[5]), low |-> OrDash(parts[6]),
          change |-> IF Len(parts) > 2 /\ parts[3] # <<>>
                     THEN calc_change(parts[4], parts[3]) ELSE DASH]

CNFetch(code, proc) ==
    LET data == run_shell(proc)
        parts == Split(CNContent(data), COMMA)
    IN  IF CNHasData(data, code) /\ CNEnoughParts(parts)
        THEN [has |-> TRUE, rec |-> CNRecord(code, parts)]
        ELSE [has |-> FALSE, rec |-> <<>>]

get_cn_stocks(resp) ==
    LET got(n) == CNFetch(NameEntry(CN_INDICES, n).symbol, resp[n])
    IN  [n \in {m \in CNNames : got(m).has} |-> got(n).rec]

\* ------------------------------------------------------- get_market_news

NEWS_MAX_RESULTS == 3
NewsCats == {"us_news", "cn_news", "global_news"}

\* ups: category -> outcome of that category's request
get_market_news(ups) == [c \in NewsCats |-> get_tavily_news(ups[c], NEWS_MAX_RESULTS)]

\* -------------------------------------------------------- generate_report

\* d.get(key, default)
Get(d, key, default) == IF key \in DOMAIN d THEN d[key] ELSE default

RECURSIVE Concat(_)
Concat(ss) == IF ss = <<>> THEN <<>> ELSE Head(ss) \o Concat(Tail(ss))

US_INDEX_ORDER == <<"DowJones", "SP500", "Nasdaq">>
TECH_ORDER == <<"Apple", "Microsoft", "Google", "Amazon", "Nvidia", "Meta", "Tesla">>
CN_INDEX_ORDER == <<"Shanghai", "Shenzhen", "ChiNext">>

USIndexRow(us, name) ==
    LET d == us[name]
    IN  <<"| ", name, " | ">> \o d.symbol \o <<" | ">> \o d.close \o <<" | ">> \o d.open
          \o <<" | ">> \o d.high \o <<" | ">> \o d.low \o <<" | ">> \o d.volume \o <<" |", NL>>

TechRow(us, name) ==
    LET d == us[name]
    IN  <<"| ", name, " | ">> \o d.symbol \o <<" | ", "$">> \o d.close \o <<" | ", "$">> \o d.open
          \o <<" | ", "$">> \o d.high \o <<" | ", "$">> \o d.low \o <<" |", NL>>

CNIndexRow(cn, name) ==
    LET d == cn[name]
    IN  <<"| ", name, " | ">> \o Get(d, "symbol", DASH) \o <<" | ">> \o Get(d, "close", DASH)
          \o <<" | ">> \o Get(d, "open", DASH) \o <<" | ">> \o Get(d, "high", DASH)
          \o <<" | ">> \o Get(d, "low", DASH) \o <<" | ">> \o Get(d, "change", DASH) \o <<" |", NL>>

\* for name in us_indices / tech / cn_indices: if name in data: report += row
USIndexRows(us) ==
    Concat([i \in 1..Len(US_INDEX_ORDER) |->
              IF US_INDEX_ORDER[i] \in DOMAIN us THEN USIndexRow(us, US_INDEX_ORDER[i]) ELSE <<>>])

TechRows(us) ==
    Concat([i \in 1..Len(TECH_ORDER) |->
              IF TECH_ORDER[i] \in DOMAIN us THEN TechRow(us, TECH_ORDER[i]) ELSE <<>>])

CNIndexRows(cn) ==
    Concat([i \in 1..Len(CN_INDEX_ORDER) |->
              IF CN_INDEX_ORDER[i] \in DOMAIN cn THEN CNIndexRow(cn, CN_INDEX_ORDER[i]) ELSE <<>>])

\* the headings of the three news sections
NewsHeading(cat) ==
    CASE cat = "us_news" -> "### US news"
      [] cat = "cn_news" -> "### CN news"
      [] cat = "global_news" -> "### Global finance"

\* if news.get("title") and "获取失败" not in news.get("title", ""):
Rendered(news) == news.title # <<>> /\ ~Contains(news.title, FETCH_FAILED)

NewsItemText(news) ==
    IF Rendered(news)
    THEN <<"- **">> \o news.title \o <<"**", NL>>
           \o (IF news.url # <<>>
               THEN <<"  link [">> \o news.url \o <<"](">> \o news.url \o <<")", NL>> ELSE <<>>)
           \o (IF news.content # <<>> THEN <<"  ">> \o news.content \o <<NL>> ELSE <<>>)
           \o <<NL>>
    ELSE <<>>

\* if news_data.get(cat): the heading, then the items that are rendered
NewsSection(nd, cat) ==
    IF Get(nd, cat, <<>>) # <<>>
    THEN <<NewsHeading(cat), NL, NL>>
           \o Concat([i \in 1..Len(nd[cat]) |-> NewsItemText(nd[cat][i])])
    ELSE <<>>

NO_NEWS == "*no news today*"

\* `now` is the text of datetime.now(); nd (news_data) is falsy when it has no key
generate_report(d, us, cn, nd, now) ==
    <<"# Daily quotes | ", d, NL, NL, "**generated**: ", now, " (Asia/Shanghai)", NL, NL,
      "---", NL, NL, "## US market", NL, NL, "### Three indices", NL, NL,
      "| index | code | close | open | high | low | volume |", NL, "|---|", NL>>
    \o USIndexRows(us)
    \o <<NL, "### Tech seven", NL, NL, "| company | code | close | open | high | low |", NL,
         "|---|", NL>>
    \o TechRows(us)
    \o <<NL, "---", NL, NL, "## CN market", NL, NL, "### Three indices", NL, NL,
         "| index | code | close | open | high | low | change |", NL, "|---|", NL>>
    \o CNIndexRows(cn)
    \o <<NL, "---", NL, NL, "## Market news (Tavily)", NL, NL>>
    \o (IF DOMAIN nd # {}
        THEN NewsSection(nd, "us_news") \o NewsSection(nd, "cn_news")
               \o NewsSection(nd, "global_news")
        ELSE <<NO_NEWS, NL, NL>>)
    \o <<"---", NL, NL, "## Data sources", NL, NL, "| sources table |", NL, NL, "---", NL, NL,
         "*generated automatically*", NL>>

\* ------------------------------------------------------------- the files

\* WriteFile keeping the file that was there
WriteFile_Keep(dir, name, content) == dir \cup {[name |-> name, content |-> content]}

\* open(path, "w") and the write: the file of that name holds `content`
WriteFile(dir, name, content) ==
    {f \in dir : f.name # name} \cup {[name |-> name, content |-> content]}

\* json.dump of the dict of save_data, into DATA_DIR / f"{date}.json"
save_data(dir, d, us, cn, nd, now) ==
    WriteFile(dir, d \o ".json",
              [date |-> d, timestamp |-> now, us_stocks |-> us, cn_stocks |-> cn,
               news |-> nd])

\* ---------------------------------------------------------- update_readme

HASH == "#"
SP == " "
LATEST_QUOTES == "LatestQuotes"

\* "## 最新行情"
MARKER == <<HASH, HASH, SP, LATEST_QUOTES>>

\* the document written when README.md does not exist
README_TEMPLATE ==
    <<HASH, SP, "Daily stock tracker", NL, NL,
      "Collects US and CN quotes daily and renders Markdown reports.", NL, NL,
      HASH, HASH, SP, "Data sources", NL, NL,
      "- **US**: Stooq (https://stooq.com)", NL,
      "- **CN**: Sina (http://hq.sinajs.cn)", NL, NL,
      HASH, HASH, SP, "Layout", NL, NL,
      "~~~", NL, "stock-daily/", NL,
      "|-- data/          ", HASH, SP, "raw JSON data", NL,
      "|-- reports/       ", HASH, SP, "Markdown reports", NL,
      "|-- collect_stocks.py  ", HASH, SP, "collector script", NL,
      "|-- README.md      ", HASH, SP, "this file", NL,
      "~~~", NL, NL,
      HASH, HASH, SP, "Schedule", NL, NL,
      "Runs daily at 08:30 (Asia/Shanghai).", NL, NL>>
    \o MARKER \o <<NL, NL>>

\* latest: the entry of the run
LatestEntry(d, us, cn) ==
    <<HASH, HASH, HASH, SP, d, NL, NL, "**US**: ">>
    \o (IF "DowJones" \in DOMAIN us
        THEN <<"Dow ">> \o us["DowJones"].close \o <<" | ">> ELSE <<>>)
    \o (IF "SP500" \in DOMAIN us
        THEN <<"S&P ">> \o us["SP500"].close \o <<" | ">> ELSE <<>>)
    \o (IF "Nasdaq" \in DOMAIN us
        THEN <<"Nasdaq ">> \o us["Nasdaq"].close ELSE <<>>)
    \o <<NL, NL, "**CN**: ">>
    \o (IF "Shanghai" \in DOMAIN cn
        THEN <<"SSE ">> \o Get(cn["Shanghai"], "close", DASH) \o <<" | ">> ELSE <<>>)
    \o (IF "Shenzhen" \in DOMAIN cn
        THEN <<"SZSE ">> \o Get(cn["Shenzhen"], "close", DASH) \o <<" | ">> ELSE <<>>)
    \o (IF "ChiNext" \in DOMAIN cn
        THEN <<"ChiNext ">> \o Get(cn["ChiNext"], "close", DASH) ELSE <<>>)
    \o <<NL, NL, "---", NL>>

\* InsertLatest appending the entry to the document
InsertLatest_AtEnd(content, latest) ==
    IF ContainsSeq(content, MARKER)
    THEN content \o latest
    ELSE content \o <<NL>> \o MARKER \o <<NL>> \o latest

\* if "## 最新行情" in content: replace "## 最新行情\n"; else append the heading
InsertLatest(content, latest) ==
    IF ContainsSeq(content, MARKER)
    THEN Replace(content, MARKER \o <<NL>>, MARKER \o <<NL>> \o latest)
    ELSE content \o <<NL>> \o MARKER \o <<NL>> \o latest

\* file: [exists, content] of README.md; the result is the file as written
update_readme(file, d, us, cn) ==
    LET content == IF file.exists THEN file.content ELSE README_TEMPLATE
    IN  [exists |-> TRUE, content |-> InsertLatest(content, LatestEntry(d, us, cn))]

\* ------------------------------------------------- single-function specifications

NoCall(args) == [fn |-> "none", args |-> args, ret |-> <<>>]

Idle ==
    /\ pc = "idle"
    /\ date = ""
    /\ clock = 0
    /\ us_data = <<>>
    /\ cn_data = <<>>
    /\ news_data = <<>>
    /\ dataDir = {}
    /\ reportsDir = {}
    /\ readme = [exists |-> FALSE, content |-> <<>>]
    /\ hist = <<>>

mainVars == <<pc, date, clock, us_data, cn_data, news_data, dataDir, reportsDir, readme, hist>>

\* the texts calc_change is called on
CalcInputs ==
    { <<"0">>, <<"9", "5">>, <<"1", "0", "0">>, <<"2", "0", "0">>, <<"2", "2", "0">>,
      <<"-", "1", "0", "0">>, <<"3">>, <<"0", ".", "0">>, <<"2", ".", "5">>, <<"-", "0">>,
      <<>>, <<"abc">>, <<"-">>, <<"1", ",", "5">>, <<"3", ".", "2", ".", "1">> }

InitCalc ==
    /\ Idle
    /\ \E c \in CalcInputs, p \in CalcInputs : call = NoCall(<<c, p>>)

CallCalcChange ==
    /\ call.fn = "none"
    /\ call' = [fn |-> "calc_change", args |-> call.args,
                ret |-> calc_change(call.args[1], call.args[2])]
    /\ UNCHANGED mainVars

NextCalc == CallCalcChange

SpecCalc == InitCalc /\ [][NextCalc]_vars

\* upstream results: item i carries its position in its title and url, and a
\* content of the chosen length whose characters are their own positions
MaxContentLen == 250
MaxUpstream == 3
MaxAsk == 3

ContentOfLen(n) == [k \in 1..n |-> ToString(k)]

ContentLens == {0, 150, SNIPPET_LEN, SNIPPET_LEN + 1, MaxContentLen}

UpItem(i, len, isStr) ==
    [title |-> <<"T", ToString(i)>>, url |-> <<"http://u/", ToString(i)>>,
     content |-> ContentOfLen(len), content_is_str |-> isStr]

UpResults ==
    UNION { { [i \in 1..n |-> UpItem(i, ls[i], bad # i)] :
                ls \in [1..n -> ContentLens], bad \in 0..n } : n \in 0..MaxUpstream }

Exceptions == { <<"URLError">>, <<"HTTP Error 401">>, <<"JSONDecodeError">> }

UpOk(results) == [raised |-> FALSE, exc |-> <<>>, results |-> results]
UpRaise(e) == [raised |-> TRUE, exc |-> e, results |-> <<>>]

InitNews ==
    /\ Idle
    /\ \E up \in {UpOk(r) : r \in UpResults} \cup {UpRaise(e) : e \in Exceptions},
          m \in 0..MaxAsk :
          call = NoCall(<<up, m>>)

CallTavily ==
    /\ call.fn = "none"
    /\ call' = [fn |-> "get_tavily_news", args |-> call.args,
                ret |-> get_tavily_news(call.args[1], call.args[2])]
    /\ UNCHANGED mainVars

NextNews == CallTavily

SpecNews == InitNews /\ [][NextNews]_vars

\* ------------------------------------------------- what the quote sources answer

MaxFields == 8

Out(text) == [raised |-> FALSE, exc |-> <<>>, stdout |-> text]
Raise(e) == [raised |-> TRUE, exc |-> e, stdout |-> <<>>]

\* str(e) of subprocess.TimeoutExpired: the command line is part of the text
TimeoutText(cmd) == <<"Command '">> \o cmd \o <<"' timed out after 30 seconds">>
OSErrorText == <<"[Errno 12] Cannot allocate memory">>

RECURSIVE Join(_, _)
Join(fields, sep) ==
    IF fields = <<>> THEN <<>>
    ELSE IF Len(fields) = 1 THEN fields[1]
    ELSE fields[1] \o <<sep>> \o Join(Tail(fields), sep)

\* A kind of answer is [t, n, k, fill, nl]: t the kind, n the number of
\* comma-separated fields, k the field holding the no-data token (0: none),
\* fill how the other fields are filled, nl whether a newline ends the text.
Kind(t, n, k, fill, nl) == [t |-> t, n |-> n, k |-> k, fill |-> fill, nl |-> nl]

FailKinds == { Kind(t, 0, 0, "pos", FALSE) : t \in {"timeout", "oserror", "empty", "blank"} }

\* Stooq: Symbol,Date,Time,Open,High,Low,Close,Volume; field i is "f<i>"
USFields(kd) == [i \in 1..kd.n |-> IF i = kd.k THEN <<NO_DATA>> ELSE <<"f" \o ToString(i)>>]

USProc(kd, symbol) ==
    CASE kd.t = "timeout" -> Raise(TimeoutText(USCmd(symbol)))
      [] kd.t = "oserror" -> Raise(OSErrorText)
      [] kd.t = "empty" -> Out(<<>>)
      [] kd.t = "blank" -> Out(<<NL>>)
      [] kd.t = "line" -> Out(Join(USFields(kd), COMMA) \o (IF kd.nl THEN <<NL>> ELSE <<>>))

USKinds ==
    FailKinds \cup
    { Kind("line", n, k, "pos", nl) : n \in 1..MaxFields, k \in 0..MaxFields, nl \in BOOLEAN }

USGood == Kind("line", 8, 0, "pos", FALSE)
USBases == { USGood, Kind("line", 7, 0, "pos", FALSE), Kind("timeout", 0, 0, "pos", FALSE) }

USSymbolOf(name) ==
    IF \E e \in Range(US_INDICES) : e.name = name
    THEN NameEntry(US_INDICES, name).symbol
    ELSE NameEntry(TECH_STOCKS, name).symbol

\* every symbol answers as base, but the symbol named dn, which answers as dev
USAnswers(base, dn, dev) == [n \in USNames |-> IF n = dn THEN dev ELSE base]
USResp(kinds) == [n \in USNames |-> USProc(kinds[n], USSymbolOf(n))]

\* Sina: var hq_str_<code>="name,open,prevClose,current,high,low,...";
\* field i (Python index i - 1) is the number 2<i-1>, so prevClose is 22 and
\* current 23; fill changes prevClose, or empties every field
CNField(kd, i) ==
    IF i = kd.k THEN <<NO_DATA>>
    ELSE IF kd.fill = "empty" THEN <<>>
    ELSE IF i = 1 THEN <<"Name">>
    ELSE IF i = 3 /\ kd.fill = "prev0" THEN <<"0">>
    ELSE IF i = 3 /\ kd.fill = "prevBad" THEN <<"x">>
    ELSE IF i = 3 /\ kd.fill = "prevEmpty" THEN <<>>
    ELSE <<"2", ToString(i - 1)>>

CNFields(kd) == [i \in 1..kd.n |-> CNField(kd, i)]

CNProc(kd, code) ==
    CASE kd.t = "timeout" -> Raise(TimeoutText(CNCmd(code)))
      [] kd.t = "oserror" -> Raise(OSErrorText)
      [] kd.t = "empty" -> Out(<<>>)
      [] kd.t = "blank" -> Out(<<NL>>)
      [] kd.t = "forbidden" -> Out(<<"Forbidden">>)
      [] kd.t = "noquote" -> Out(<<"var hq_str_", code, "=;">>)
      [] kd.t = "line" ->
           Out(<<"var hq_str_", code, "=", QUOTE>> \o Join(CNFields(kd), COMMA)
                 \o <<QUOTE, ";">> \o (IF kd.nl THEN <<NL>> ELSE <<>>))

CNFills == {"pos", "empty", "prev0", "prevBad", "prevEmpty"}

CNKinds ==
    FailKinds \cup
    { Kind(t, 0, 0, "pos", FALSE) : t \in {"forbidden", "noquote"} } \cup
    { Kind("line", n, k, fill, TRUE) : n \in 0..MaxFields, k \in 0..MaxFields, fill \in CNFills }

CNGood == Kind("line", 8, 0, "pos", TRUE)
CNBases == { CNGood, Kind("timeout", 0, 0, "pos", FALSE) }

CNAnswers(base, dn, dev) == [n \in CNNames |-> IF n = dn THEN dev ELSE base]
CNResp(kinds) == [n \in CNNames |-> CNProc(kinds[n], NameEntry(CN_INDICES, n).symbol)]

\* call.args = <<market, kinds>>: the kind of answer of every symbol
InitQuotes ==
    /\ Idle
    /\ \/ \E b \in USBases, dn \in USNames, d \in USKinds :
             call = NoCall(<<"us", USAnswers(b, dn, d)>>)
       \/ \E b \in CNBases, dn \in CNNames, d \in CNKinds :
             call = NoCall(<<"cn", CNAnswers(b, dn, d)>>)

CallGetUS ==
    /\ call.fn = "none"
    /\ call.args[1] = "us"
    /\ call' = [fn |-> "get_us_stocks", args |-> call.args,
                ret |-> get_us_stocks(USResp(call.args[2]))]
    /\ UNCHANGED mainVars

CallGetCN ==
    /\ call.fn = "none"
    /\ call.args[1] = "cn"
    /\ call' = [fn |-> "get_cn_stocks", args |-> call.args,
                ret |-> get_cn_stocks(CNResp(call.args[2]))]
    /\ UNCHANGED mainVars

NextQuotes == CallGetUS \/ CallGetCN

SpecQuotes == InitQuotes /\ [][NextQuotes]_vars

\* ------------------------------------------------------------------ main

MaxRuns == 3

\* date = datetime.now().strftime("%Y-%m-%d"): the days a run can fall on, in order
Dates == <<"2026-02-01", "2026-02-02">>
DateStr(day) == Dates[day]

\* the text of datetime.now() at time t
NowText(t) == "T" \o ToString(t)

\* What the sources answer during one run: the kind of answer of every US
\* symbol and CN code, and the outcome of the three news requests.
AllUS(kd) == [n \in USNames |-> kd]
AllCN(kd) == [n \in CNNames |-> kd]

NewsOkAll(n, len) == [c \in NewsCats |-> UpOk([i \in 1..n |-> UpItem(i, len, TRUE)])]

Worlds ==
    { \* every request succeeds
      [us |-> AllUS(USGood), cn |-> AllCN(CNGood), news |-> NewsOkAll(2, 5)],
      \* every request fails
      [us |-> AllUS(Kind("timeout", 0, 0, "pos", FALSE)),
       cn |-> AllCN(Kind("timeout", 0, 0, "pos", FALSE)),
       news |-> [c \in NewsCats |-> UpRaise(<<"URLError">>)]],
      \* no data for the Dow, five fields for Shanghai, the US news request fails,
      \* no CN news, more global news than asked for, one of them long
      [us |-> USAnswers(USGood, "DowJones", Kind("line", 8, 2, "pos", FALSE)),
       cn |-> CNAnswers(CNGood, "Shanghai", Kind("line", 5, 0, "pos", TRUE)),
       news |-> [c \in NewsCats |->
                   CASE c = "us_news" -> UpRaise(<<"HTTP Error 401">>)
                     [] c = "cn_news" -> UpOk(<<>>)
                     [] c = "global_news" ->
                          UpOk([i \in 1..(NEWS_MAX_RESULTS + 1) |->
                                  UpItem(i, IF i = 2 THEN SNIPPET_LEN + 1 ELSE 3, TRUE)])]],
      \* lines without volume, empty CN fields, a news item whose content is no text
      [us |-> AllUS(Kind("line", 7, 0, "pos", TRUE)),
       cn |-> AllCN(Kind("line", 6, 0, "empty", TRUE)),
       news |-> [c \in NewsCats |->
                   IF c = "cn_news" THEN UpOk(<<UpItem(1, 2, TRUE), UpItem(2, 2, FALSE)>>)
                   ELSE UpOk(<<UpItem(1, 2, TRUE)>>)]] }

NoWorld == [us |-> <<>>, cn |-> <<>>, news |-> <<>>]

\* hist: day and runs count the runs started; world is what the sources
\* answer in the current run; data0, reports0 and readme0 are the files as
\* the current run found them; entries are the entries update_readme has
\* inserted, oldest first; saved maps a date to the snapshot save_data wrote
\* last for it; stoppedAt is where the last run stopped.
Init ==
    /\ pc = "idle"
    /\ date = ""
    /\ clock = 0
    /\ us_data = <<>>
    /\ cn_data = <<>>
    /\ news_data = <<>>
    /\ dataDir = {}
    /\ reportsDir = {}
    /\ readme = [exists |-> FALSE, content |-> <<>>]
    /\ hist = [day |-> 1, runs |-> 0, world |-> NoWorld, data0 |-> {}, reports0 |-> {},
               readme0 |-> [exists |-> FALSE, content |-> <<>>], entries |-> <<>>,
               saved |-> <<>>, stoppedAt |-> "none"]
    /\ call = NoCall(<<>>)

Running == {"us", "cn", "news", "save", "report", "readme"}

\* the process starts: main reads the date
Start ==
    /\ pc \in {"idle", "stopped"}
    /\ hist.runs < MaxRuns
    /\ \E day \in hist.day..Len(Dates), w \in Worlds :
          /\ date' = DateStr(day)
          /\ hist' = [hist EXCEPT !.day = day, !.runs = @ + 1, !.world = w,
                                  !.data0 = dataDir, !.reports0 = reportsDir,
                                  !.readme0 = readme, !.stoppedAt = "none"]
    /\ pc' = "us"
    /\ clock' = clock + 1
    /\ us_data' = <<>>
    /\ cn_data' = <<>>
    /\ news_data' = <<>>
    /\ UNCHANGED <<dataDir, reportsDir, readme, call>>

\* us_data = get_us_stocks()
FetchUS ==
    /\ pc = "us"
    /\ us_data' = get_us_stocks(USResp(hist.world.us))
    /\ pc' = "cn"
    /\ UNCHANGED <<date, clock, cn_data, news_data, dataDir, reportsDir, readme, hist, call>>

\* cn_data = get_cn_stocks()
FetchCN ==
    /\ pc = "cn"
    /\ cn_data' = get_cn_stocks(CNResp(hist.world.cn))
    /\ pc' = "news"
    /\ UNCHANGED <<date, clock, us_data, news_data, dataDir, reportsDir, readme, hist, call>>

\* news_data = get_market_news()
FetchNews ==
    /\ pc = "news"
    /\ news_data' = get_market_news(hist.world.news)
    /\ pc' = "save"
    /\ UNCHANGED <<date, clock, us_data, cn_data, dataDir, reportsDir, readme, hist, call>>

\* main writing the report where it should save the data
SaveData_ReportFirst ==
    /\ pc = "save"
    /\ clock' = clock + 1
    /\ reportsDir' = WriteFile(reportsDir, date \o ".md",
                               generate_report(date, us_data, cn_data, news_data, NowText(clock')))
    /\ pc' = "report"
    /\ UNCHANGED <<date, us_data, cn_data, news_data, dataDir, readme, hist, call>>

\* save_data(date, us_data, cn_data, news_data)
SaveData ==
    /\ pc = "save"
    /\ clock' = clock + 1
    /\ dataDir' = save_data(dataDir, date, us_data, cn_data, news_data, NowText(clock'))
    /\ hist' = [hist EXCEPT !.saved =
                  [d \in DOMAIN hist.saved \cup {date} |->
                     IF d = date
                     THEN [date |-> date, timestamp |-> NowText(clock'), us_stocks |-> us_data,
                           cn_stocks |-> cn_data, news |-> news_data]
                     ELSE hist.saved[d]]]
    /\ pc' = "report"
    /\ UNCHANGED <<date, us_data, cn_data, news_data, reportsDir, readme, call>>

\* report = generate_report(...); the report is written to reports/<date>.md
WriteReport ==
    /\ pc = "report"
    /\ clock' = clock + 1
    /\ reportsDir' = WriteFile(reportsDir, date \o ".md",
                               generate_report(date, us_data, cn_data, news_data, NowText(clock')))
    /\ pc' = "readme"
    /\ UNCHANGED <<date, us_data, cn_data, news_data, dataDir, readme, hist, call>>

\* update_readme(date, us_data, cn_data), and main returns
UpdateReadme ==
    /\ pc = "readme"
    /\ readme' = update_readme(readme, date, us_data, cn_data)
    /\ hist' = [hist EXCEPT !.entries = Append(@, [date |-> date,
                                                          text |-> LatestEntry(date, us_data, cn_data)]),
                            !.stoppedAt = "end"]
    /\ pc' = "idle"
    /\ UNCHANGED <<date, clock, us_data, cn_data, news_data, dataDir, reportsDir, call>>

\* the process is killed, or the write about to happen fails: the run stops
\* before the step at pc
Crash ==
    /\ pc \in Running
    /\ pc' = "stopped"
    /\ hist' = [hist EXCEPT !.stoppedAt = pc]
    /\ UNCHANGED <<date, clock, us_data, cn_data, news_data, dataDir, reportsDir, readme, call>>

Next ==
    \/ Start
    \/ FetchUS
    \/ FetchCN
    \/ FetchNews
    \/ SaveData
    \/ WriteReport
    \/ UpdateReadme
    \/ Crash

Spec == Init /\ [][Next]_vars

\* ------------------------------------------- update_readme on any document

MaxPieces == 3

\* The pieces an index document is put together from: the marker heading on
\* a line of its own, the marker text with no newline after it (at the end
\* of the file, or followed by more text), a deeper heading of the same
\* title, a line of other text, and an entry of an earlier run.
Pieces ==
    { MARKER \o <<NL>>,
      MARKER,
      <<HASH>> \o MARKER \o <<NL>>,
      <<"other text", NL>>,
      LatestEntry("2026-01-31", <<>>, <<>>) }

RECURSIVE DocsOf(_)
DocsOf(n) == IF n = 0 THEN {<<>>} ELSE {p \o d : p \in Pieces, d \in DocsOf(n - 1)}

Docs == UNION {DocsOf(n) : n \in 0..MaxPieces}

InitReadme ==
    /\ pc = "idle"
    /\ date = ""
    /\ clock = 0
    /\ us_data = <<>>
    /\ cn_data = <<>>
    /\ news_data = <<>>
    /\ dataDir = {}
    /\ reportsDir = {}
    /\ readme \in {[exists |-> TRUE, content |-> d] : d \in Docs}
                    \cup {[exists |-> FALSE, content |-> <<>>]}
    /\ hist = <<>>
    /\ call = NoCall(<<>>)

\* one run of update_readme; call.args = <<the document read, latest>>
CallUpdateReadme ==
    /\ call.fn = "none"
    /\ \E day \in 1..Len(Dates), w \in Worlds :
          LET us == get_us_stocks(USResp(w.us))
              cn == get_cn_stocks(CNResp(w.cn))
          IN  /\ readme' = update_readme(readme, DateStr(day), us, cn)
              /\ call' = [fn |-> "update_readme",
                          args |-> <<IF readme.exists THEN readme.content ELSE README_TEMPLATE,
                                     LatestEntry(DateStr(day), us, cn)>>,
                          ret |-> readme'.content]
    /\ UNCHANGED <<pc, date, clock, us_data, cn_data, news_data, dataDir, reportsDir, hist>>

NextReadme == CallUpdateReadme

SpecReadme == InitReadme /\ [][NextReadme]_vars

\* ----------------------------------------------------------------- claims

RECURSIVE Reverse(_)
Reverse(q) == IF q = <<>> THEN <<>> ELSE Append(Reverse(Tail(q)), Head(q))

\* the positions at which needle occurs in s
Occurrences(s, needle) == {i \in 1..Len(s) : StartsAt(s, needle, i)}

EntryHeading(d) == <<HASH, HASH, HASH, SP, d, NL>>

\* C1: starting from no index document, after any sequence of runs the
\* document is the template with the entries of the runs directly below the
\* marker heading, newest first, none lost; every entry starts with the
\* heading of its run's date, and the marker heading occurs exactly once.
C1_NewestFirstBelowMarker ==
    LET texts == [i \in 1..Len(hist.entries) |-> hist.entries[i].text]
        head == SubSeq(README_TEMPLATE, 1, Len(README_TEMPLATE) - 1)
    IN  /\ readme.exists = (hist.entries # <<>>)
        /\ readme.exists =>
             /\ readme.content = head \o Concat(Reverse(texts)) \o <<NL>>
             /\ Cardinality(Occurrences(readme.content, MARKER)) = 1
             /\ \A i \in Occurrences(readme.content, MARKER) :
                  StartsAt(readme.content,
                           <<NL>> \o EntryHeading(hist.entries[Len(hist.entries)].date),
                           i + Len(MARKER))
        /\ \A i \in 1..Len(hist.entries) :
             StartsAt(hist.entries[i].text, EntryHeading(hist.entries[i].date), 1)

\* two runs for different dates have updated the document
C1_Witness ==
    /\ pc = "idle"
    /\ Len(hist.entries) >= 2
    /\ hist.entries[1].date # hist.entries[2].date

\* removing the n tokens from position i
RemoveAt(s, i, n) == SubSeq(s, 1, i - 1) \o SubSeq(s, i + n, Len(s))

\* C2: on every run of update_readme, whatever the document read, exactly
\* one entry of the run is inserted, immediately after the marker heading,
\* and the document grows by that one entry (and by the heading, when the
\* document had none).
C2_ExactlyOneEntryAfterMarker ==
    call.fn = "update_readme" =>
        LET before == call.args[1]
            latest == call.args[2]
            after == call.ret
            at == Occurrences(after, latest)
        IN  /\ Cardinality(at) = 1
            /\ \A i \in at :
                 /\ i > Len(MARKER) + 1
                 /\ StartsAt(after, MARKER \o <<NL>>, i - Len(MARKER) - 1)
                 /\ RemoveAt(after, i, Len(latest))
                      \in {before, before \o <<NL>> \o MARKER \o <<NL>>}

SnapshotName(d) == d \o ".json"

\* C3: the data directory holds exactly one snapshot for every date a run
\* has saved, under that date's name, holding what the latest save for that
\* date wrote, and nothing else.
C3_OneSnapshotPerDate ==
    /\ \A d \in DOMAIN hist.saved :
         /\ Cardinality({f \in dataDir : f.content.date = d}) = 1
         /\ [name |-> SnapshotName(d), content |-> hist.saved[d]] \in dataDir
    /\ \A f \in dataDir : f.content.date \in DOMAIN hist.saved

\* a run has just overwritten the snapshot an earlier run wrote for its date
C3_Witness ==
    /\ pc = "report"
    /\ \E f \in hist.data0 : f.name = SnapshotName(date) /\ f \notin dataDir
    /\ \E f \in dataDir : f.name # SnapshotName(date)

HasNoData(kd) == kd.t = "line" /\ kd.k \in 1..kd.n
Errored(kd) == kd.t \in {"timeout", "oserror"}

\* C4 as stated: in both fetchers a symbol whose request times out or
\* errors, or whose answer contains the no-data token, has no entry.
C4_OmittedInBothFetchers ==
    call.fn \in {"get_us_stocks", "get_cn_stocks"} =>
        \A n \in DOMAIN call.args[2] :
            (Errored(call.args[2][n]) \/ HasNoData(call.args[2][n])) => n \notin DOMAIN call.ret

\* C4, amended: a symbol whose request times out or errors has no entry, in
\* both fetchers; a symbol whose answer contains the no-data token has no
\* entry in get_us_stocks.
C4_OmittedOnFailure ==
    /\ call.fn \in {"get_us_stocks", "get_cn_stocks"} =>
         \A n \in DOMAIN call.args[2] : Errored(call.args[2][n]) => n \notin DOMAIN call.ret
    /\ call.fn = "get_us_stocks" =>
         \A n \in DOMAIN call.args[2] : HasNoData(call.args[2][n]) => n \notin DOMAIN call.ret

\* a full US line holding the no-data token is left out, the others are kept
C4_Witness ==
    /\ call.fn = "get_us_stocks"
    /\ call.args[2]["DowJones"] = Kind("line", 8, 2, "pos", FALSE)
    /\ "DowJones" \notin DOMAIN call.ret
    /\ "SP500" \in DOMAIN call.ret

US_RECORD_FIELDS == 7
CN_RECORD_FIELDS == 6
CompleteFields == {"symbol", "close", "open", "high", "low"}

\* C5: a payload of fewer fields than the record needs (US 7, CN 6) gives
\* no entry, and every entry is a complete record.
C5_NoPartialRecord ==
    call.fn \in {"get_us_stocks", "get_cn_stocks"} =>
        LET need == IF call.fn = "get_us_stocks" THEN US_RECORD_FIELDS ELSE CN_RECORD_FIELDS
        IN  /\ \A n \in DOMAIN call.args[2] :
                 (call.args[2][n].t = "line" /\ call.args[2][n].n < need)
                     => n \notin DOMAIN call.ret
            /\ \A n \in DOMAIN call.ret : CompleteFields \subseteq DOMAIN call.ret[n]

\* the items of a category that are no failure sentinel
IsSentinel(item) == Contains(item.title, FETCH_FAILED)

\* C6: the report of a run has no heading for a news category whose list is
\* empty once the failure sentinels are filtered out.
C6_NoHeadingForEmptySection ==
    pc = "readme" =>
        \A f \in reportsDir :
            f.name = date \o ".md" =>
                \A c \in NewsCats :
                    (\A i \in 1..Len(news_data[c]) : IsSentinel(news_data[c][i]))
                        => ~Contains(f.content, NewsHeading(c))

Min(a, b) == IF a < b THEN a ELSE b

IsSentinelList(ret, reason) ==
    /\ Len(ret) = 1
    /\ StartsAt(ret[1].title, <<FETCH_FAILED>>, 1)
    /\ ContainsSeq(ret[1].title, reason)
    /\ ret[1].url = <<>>
    /\ ret[1].content = <<>>

\* what get_tavily_news is to return for the outcome `up` when asked for m
TavilyContract(up, m, ret) ==
    IF up.raised THEN IsSentinelList(ret, up.exc)
    ELSE IF \E i \in 1..Min(m, Len(up.results)) : ~up.results[i].content_is_str
         THEN IsSentinelList(ret, <<>>)
         ELSE /\ Len(ret) = Min(m, Len(up.results))
              /\ \A i \in 1..Len(ret) :
                   ret[i].title = up.results[i].title /\ ret[i].url = up.results[i].url

\* the same contract for a call on its own, asked for 0..MaxAsk results
\* (an invariant of SpecNews)
TavilyCallContract ==
    call.fn = "get_tavily_news" => TavilyContract(call.args[1], call.args[2], call.ret)

\* C7: for every category the list main holds is the first min(3, n) of the
\* n upstream results in upstream order, or, when the request failed, the
\* one sentinel item with the reason in its title and empty url and content;
\* and the snapshot the run saves holds these lists unchanged.
C7_ResultsOrSentinelPersisted ==
    /\ pc \in {"save", "report", "readme"} =>
         \A c \in NewsCats : TavilyContract(hist.world.news[c], NEWS_MAX_RESULTS, news_data[c])
    /\ pc \in {"report", "readme"} =>
         \E f \in dataDir : f.name = SnapshotName(date) /\ f.content.news = news_data

\* a failed request's sentinel is in the saved snapshot, beside a list cut to three
C7_Witness ==
    /\ pc = "report"
    /\ hist.world.news["us_news"].raised
    /\ Len(hist.world.news["global_news"].results) > NEWS_MAX_RESULTS
    /\ \E f \in dataDir :
         /\ f.name = SnapshotName(date)
         /\ IsSentinelList(f.content.news["us_news"], <<"HTTP Error 401">>)
         /\ Len(f.content.news["global_news"]) = NEWS_MAX_RESULTS

\* the inputs of CalcInputs Python's float() accepts, in hundredths
Hundredths(s) ==
    CASE s = <<"0">> -> 0 [] s = <<"9", "5">> -> 9500 [] s = <<"1", "0", "0">> -> 10000
      [] s = <<"2", "0", "0">> -> 20000 [] s = <<"2", "2", "0">> -> 22000
      [] s = <<"-", "1", "0", "0">> -> 0 - 10000 [] s = <<"3">> -> 300
      [] s = <<"0", ".", "0">> -> 0 [] s = <<"2", ".", "5">> -> 250 [] s = <<"-", "0">> -> 0

Numeric ==
    { <<"0">>, <<"9", "5">>, <<"1", "0", "0">>, <<"2", "0", "0">>, <<"2", "2", "0">>,
      <<"-", "1", "0", "0">>, <<"3">>, <<"0", ".", "0">>, <<"2", ".", "5">>, <<"-", "0">> }

\* ret is sign, digits, ".", two digits, "%" and is within half a hundredth
\* of (cur - prev) / prev * 100
IsPercentOf(ret, cur, prev) ==
    /\ Len(ret) = 6
    /\ ret[1] \in {"+", "-"}
    /\ ret[3] = "." /\ ret[4] \in Digits /\ ret[5] \in Digits /\ ret[6] = "%"
    /\ \E whole \in 0..10000 :
         /\ ret[2] = ToString(whole)
         /\ LET mag == whole * 100 + DigitVal(ret[4]) * 10 + DigitVal(ret[5])
                r == IF ret[1] = "-" THEN 0 - mag ELSE mag
            IN  \* | r/100 - 100 (cur - prev)/prev | <= 1/200
                2 * Abs(r * prev - 10000 * (cur - prev)) <= Abs(prev)

\* C8 as stated: the dash when prev is zero or an argument is no number,
\* else the signed percentage with two decimals.
C8_DashOnZeroOrUnparsable ==
    call.fn = "calc_change" =>
        LET cur == call.args[1]
            prev == call.args[2]
        IN  IF cur \notin Numeric \/ prev \notin Numeric \/ Hundredths(prev) = 0
            THEN call.ret = DASH
            ELSE IsPercentOf(call.ret, Hundredths(cur), Hundredths(prev))

\* C8, amended: the dash when an argument is no number; "0%" when both are
\* numbers and prev is zero; else the signed percentage with two decimals,
\* "+10.00%" for 220 against 200 and "-5.00%" for 95 against 100.
C8_ChangeOrPlaceholder ==
    call.fn = "calc_change" =>
        LET cur == call.args[1]
            prev == call.args[2]
        IN  /\ IF cur \notin Numeric \/ prev \notin Numeric THEN call.ret = DASH
               ELSE IF Hundredths(prev) = 0 THEN call.ret = ZERO_PCT
               ELSE IsPercentOf(call.ret, Hundredths(cur), Hundredths(prev))
            /\ (cur = <<"2", "2", "0">> /\ prev = <<"2", "0", "0">>)
                 => call.ret = <<"+", "10", ".", "0", "0", "%">>
            /\ (cur = <<"9", "5">> /\ prev = <<"1", "0", "0">>)
                 => call.ret = <<"-", "5", ".", "0", "0", "%">>

\* calc_change was called with a number and a zero prev
C8_Witness ==
    /\ call.fn = "calc_change"
    /\ call.args = << <<"1", "0", "0">>, <<"0">> >>
    /\ call.ret = ZERO_PCT

\* C9: every item get_tavily_news returns carries its upstream content
\* unchanged when that has at most 200 characters, and else its first 200
\* characters followed by the ellipsis.
C9_SnippetTruncation ==
    (call.fn = "get_tavily_news" /\ ~call.args[1].raised
       /\ \A i \in 1..Len(call.ret) : ~IsSentinel(call.ret[i])) =>
        \A i \in 1..Len(call.ret) :
            LET c == call.args[1].results[i].content
                sn == call.ret[i].content
            IN  IF Len(c) <= SNIPPET_LEN THEN sn = c
                ELSE /\ Len(sn) = SNIPPET_LEN + 1
                     /\ \A k \in 1..SNIPPET_LEN : sn[k] = c[k]
                     /\ sn[SNIPPET_LEN + 1] = "..."

\* contents of 250 and of 150 characters were stored
C9_Witness ==
    /\ call.fn = "get_tavily_news"
    /\ Len(call.ret) = 2
    /\ Len(call.args[1].results[1].content) = MaxContentLen
    /\ Len(call.ret[1].content) = SNIPPET_LEN + 1
    /\ Len(call.args[1].results[2].content) = 150
    /\ call.ret[2].content = call.args[1].results[2].content

ThisRunsSnapshot ==
    [name |-> SnapshotName(date), content |-> hist.saved[date]]

\* C10: the three writes of a run happen in the order snapshot, report,
\* index document, the snapshot only once the three fetches are done; a run
\* that stops between the snapshot and the report leaves the snapshot of
\* its date written and the reports and the index document as it found
\* them, and nothing takes the snapshot back.
C10_WriteOrder ==
    /\ [](/\ pc = "save" =>
               /\ us_data = get_us_stocks(USResp(hist.world.us))
               /\ cn_data = get_cn_stocks(CNResp(hist.world.cn))
               /\ news_data = get_market_news(hist.world.news)
          /\ (pc = "stopped" /\ hist.stoppedAt = "report") =>
               /\ ThisRunsSnapshot \in dataDir
               /\ ThisRunsSnapshot \notin hist.data0
               /\ reportsDir = hist.reports0
               /\ readme = hist.readme0)
    /\ [][/\ dataDir' # dataDir =>
               pc = "save" /\ reportsDir = hist.reports0 /\ readme = hist.readme0
                  /\ reportsDir' = reportsDir /\ readme' = readme
          /\ reportsDir' # reportsDir =>
               pc = "report" /\ dataDir # hist.data0 /\ readme = hist.readme0
                  /\ dataDir' = dataDir /\ readme' = readme
          /\ readme' # readme =>
               pc = "readme" /\ dataDir # hist.data0 /\ reportsDir # hist.reports0
                  /\ dataDir' = dataDir /\ reportsDir' = reportsDir
          /\ pc = "stopped" => dataDir' = dataDir]_vars

\* a run stopped between the two writes, with an older report on disk
C10_Witness ==
    /\ pc = "stopped"
    /\ hist.stoppedAt = "report"
    /\ hist.reports0 # {}
    /\ ThisRunsSnapshot \in dataDir

====
